---- MODULE Spec2Model ----
(***************************************************************************)
(* Model of the S3 benchmark harness (src/src/main.rs): argument handling, *)
(* the put and get worker tasks, the shared statistics vector behind a     *)
(* mutex, the join barrier and the final aggregation.                      *)
(*                                                                         *)
(* Time is counted in ticks; TicksPerMs ticks make one millisecond, so     *)
(* Duration::as_millis truncates.  The storage service is the environment: *)
(* every call may return any of the results its type allows.               *)
(***************************************************************************)
EXTENDS Integers, Sequences, FiniteSets, Bags, TLC

(* ---- bounds of the model ---- *)
MaxWorkers == 2
MaxPerThread == 2
MaxTime == 2
MaxPages == 2
MaxOps == 3
TicksPerMs == 2

(* ---- program constants ---- *)
RequiredArgs == 8
MinFileSize == 1024
FileSizeLimit == 104857600
BytesPerKiB == 1024
BackoffSecs == 1
MillisPerSec == 1000

(* ---- value domains ---- *)
BadArg == -1
NoToken == 0
NoOwner == -1
MainThread == 0
NoKey == "none"
Keys == {"put_1024"}
NoStats == [request_type |-> "None"]

Workers == 1..MaxWorkers
ArgValues == {BadArg} \cup (0..MaxPerThread)

VARIABLES
    argv,               \* env::args(): num_args and the four numeric arguments
    main_pc,            \* position of main
    put_thread_num, put_per_thread, get_thread_num, get_per_thread,
    tasks_future,       \* number of join handles pushed so far
    pc,                 \* position of each worker task
    iter,               \* iterations of the for loop started by each worker
    file_size,          \* put worker local
    body,               \* put worker local: length of the generated payload
    start_time,         \* worker local
    request,            \* get worker local: continuation_token of the request
    pages,              \* get worker: pages received in the current listing
    objects,            \* get worker local: keys listed so far
    key,                \* get worker local
    buf,                \* get worker local: length of the body read
    stats,              \* worker local: the Stats value about to be pushed
    vec_len,            \* Vec::push: the length read before the write
    stats_vec,          \* the shared Vec<Stats>
    mutex,              \* owner of the std::sync::Mutex
    now,                \* the monotonic clock behind Instant::now()
    totals,             \* put_count .. get_file_size of the aggregation
    put_avg_time, get_avg_time,
    report,             \* the two printed lines
    ok_put, ok_get, ok_read,    \* history: successful PUT / GET / body reads
    pushed,             \* history: bag of the values handed to Vec::push
    backoffs,           \* history: backoff sleeps finished by each worker
    gets,               \* history: GET requests sent by each worker
    appended,           \* history: Vec::push calls completed by each worker
    agg_runs            \* history: number of aggregation passes

config == <<put_thread_num, put_per_thread, get_thread_num, get_per_thread>>
putLocals == <<file_size, body>>
getLocals == <<request, pages, objects, key, buf>>
aggVars == <<totals, put_avg_time, get_avg_time, report, agg_runs>>
mainVars == <<argv, main_pc, config, tasks_future, aggVars>>
workerVars == <<pc, iter, putLocals, getLocals, start_time, stats, vec_len>>
counts == <<gets, appended>>
history == <<ok_put, ok_get, ok_read, pushed, backoffs, counts>>
vars == <<mainVars, workerVars, stats_vec, mutex, now, history>>

(* ---- helpers ---- *)
Min(a, b) == IF a <= b THEN a ELSE b

\* The clock after an operation that takes d ticks (saturating at MaxTime).
Elapse(d) == Min(now + d, MaxTime)
Delays == 0..1

\* std::time::Duration::from_secs(1), in ticks
BackoffTicks == BackoffSecs * MillisPerSec * TicksPerMs

\* Samples of the closed range 1024..=1024 * 1024 * 100.
FileSizesInclusive == {MinFileSize, FileSizeLimit}

\* thread_rng().gen_range(1024..1024 * 1024 * 100): samples of the half-open range
FileSizes == {MinFileSize, FileSizeLimit - 1}

\* buf.len() after read_to_end
BodySizes == {0, MinFileSize}

Stats(st, et, rt, fs) ==
    [start_time |-> st, end_time |-> et, request_type |-> rt, file_size |-> fs]

IsPutWorker(w) == w <= put_thread_num
IsGetWorker(w) == w > put_thread_num
PerThread(w) == IF IsPutWorker(w) THEN put_per_thread ELSE get_per_thread

ZeroTotals == [put_count |-> 0, get_count |-> 0, put_time |-> 0, get_time |-> 0,
               put_file_size |-> 0, get_file_size |-> 0]
NoReport == [printed |-> FALSE]

Init ==
    /\ argv \in [num_args : {RequiredArgs - 1, RequiredArgs}, a4 : ArgValues,
                 a5 : ArgValues, a6 : ArgValues, a7 : ArgValues]
    /\ argv.num_args # RequiredArgs =>
          argv.a4 = BadArg /\ argv.a5 = BadArg /\ argv.a6 = BadArg /\ argv.a7 = BadArg
    /\ argv.a4 <= MaxWorkers /\ argv.a6 <= MaxWorkers
    /\ BadArg \notin {argv.a4, argv.a5, argv.a6, argv.a7} =>
          /\ argv.a4 + argv.a6 <= MaxWorkers
          /\ argv.a4 * argv.a5 + argv.a6 * argv.a7 <= MaxOps
    /\ main_pc = "args"
    /\ put_thread_num = 0 /\ put_per_thread = 0
    /\ get_thread_num = 0 /\ get_per_thread = 0
    /\ tasks_future = 0
    /\ pc = [w \in Workers |-> "unspawned"]
    /\ iter = [w \in Workers |-> 0]
    /\ file_size = [w \in Workers |-> 0]
    /\ body = [w \in Workers |-> 0]
    /\ start_time = [w \in Workers |-> 0]
    /\ request = [w \in Workers |-> NoToken]
    /\ pages = [w \in Workers |-> 0]
    /\ objects = [w \in Workers |-> <<>>]
    /\ key = [w \in Workers |-> NoKey]
    /\ buf = [w \in Workers |-> 0]
    /\ stats = [w \in Workers |-> NoStats]
    /\ vec_len = [w \in Workers |-> 0]
    /\ stats_vec = <<>>
    /\ mutex = NoOwner
    /\ now = 0
    /\ totals = ZeroTotals
    /\ put_avg_time = 0 /\ get_avg_time = 0
    /\ report = NoReport
    /\ ok_put = 0 /\ ok_get = 0 /\ ok_read = 0
    /\ pushed = EmptyBag
    /\ backoffs = [w \in Workers |-> 0]
    /\ gets = [w \in Workers |-> 0]
    /\ appended = [w \in Workers |-> 0]
    /\ agg_runs = 0

(* ---- main: arguments ---- *)

\* if num_args != 8 { println!(usage); exit(1) }
CheckArgs ==
    /\ main_pc = "args"
    /\ main_pc' = IF argv.num_args # RequiredArgs THEN "exit_usage" ELSE "parse"
    /\ UNCHANGED <<argv, config, tasks_future, aggVars, workerVars, stats_vec,
                   mutex, now, history>>

\* parse::<usize>().unwrap() of arguments 4..7
ParseArgs ==
    /\ main_pc = "parse"
    /\ IF BadArg \in {argv.a4, argv.a5, argv.a6, argv.a7}
         THEN /\ main_pc' = "panic_parse"
              /\ UNCHANGED config
         ELSE /\ main_pc' = "spawn_put"
              /\ put_thread_num' = argv.a4
              /\ put_per_thread' = argv.a5
              /\ get_thread_num' = argv.a6
              /\ get_per_thread' = argv.a7
    /\ UNCHANGED <<argv, tasks_future, aggVars, workerVars, stats_vec, mutex,
                   now, history>>

(* ---- main: spawning ---- *)

\* for _ in 0..put_thread_num { tasks_future.push(tokio::task::spawn(..)) }
SpawnPut ==
    /\ main_pc = "spawn_put"
    /\ tasks_future < put_thread_num
    /\ tasks_future' = tasks_future + 1
    /\ pc' = [pc EXCEPT ![tasks_future + 1] = "loop"]
    /\ UNCHANGED <<argv, main_pc, config, aggVars, iter, putLocals, getLocals,
                   start_time, stats, vec_len, stats_vec, mutex, now, history>>

\* the put loop is exhausted: go on to the get loop
SpawnPutDone ==
    /\ main_pc = "spawn_put"
    /\ tasks_future = put_thread_num
    /\ main_pc' = "spawn_get"
    /\ UNCHANGED <<argv, config, tasks_future, aggVars, workerVars, stats_vec,
                   mutex, now, history>>

\* for _ in 0..get_thread_num { tasks_future.push(tokio::task::spawn(..)) }
SpawnGet ==
    /\ main_pc = "spawn_get"
    /\ tasks_future < put_thread_num + get_thread_num
    /\ tasks_future' = tasks_future + 1
    /\ pc' = [pc EXCEPT ![tasks_future + 1] = "loop"]
    /\ UNCHANGED <<argv, main_pc, config, aggVars, iter, putLocals, getLocals,
                   start_time, stats, vec_len, stats_vec, mutex, now, history>>

\* println!("waiting for futures"); main enters block_on(join_all(..))
SpawnGetDone ==
    /\ main_pc = "spawn_get"
    /\ tasks_future = put_thread_num + get_thread_num
    /\ main_pc' = "join"
    /\ UNCHANGED <<argv, config, tasks_future, aggVars, workerVars, stats_vec,
                   mutex, now, history>>

(* ---- workers: common steps ---- *)

\* The locals of worker w go out of scope (end of an iteration, or unwinding).
DropLocals(w) ==
    /\ file_size' = [file_size EXCEPT ![w] = 0]
    /\ body' = [body EXCEPT ![w] = 0]
    /\ start_time' = [start_time EXCEPT ![w] = 0]
    /\ request' = [request EXCEPT ![w] = NoToken]
    /\ pages' = [pages EXCEPT ![w] = 0]
    /\ objects' = [objects EXCEPT ![w] = <<>>]
    /\ key' = [key EXCEPT ![w] = NoKey]
    /\ buf' = [buf EXCEPT ![w] = 0]

\* The body of the for loop is left: back to the loop head.
EndIteration(w) ==
    /\ pc' = [pc EXCEPT ![w] = "loop"]
    /\ DropLocals(w)

\* An unwrap() on Err/None panics: the task ends, its join handle yields Err.
Panic(w) ==
    /\ pc' = [pc EXCEPT ![w] = "panicked"]
    /\ DropLocals(w)

\* The for loop of a worker is exhausted: the task's future completes.
WorkerDone(w) ==
    /\ pc[w] = "loop"
    /\ iter[w] = PerThread(w)
    /\ pc' = [pc EXCEPT ![w] = "done"]
    /\ UNCHANGED <<mainVars, iter, putLocals, getLocals, start_time, stats,
                   vec_len, stats_vec, mutex, now, history>>

(* ---- put worker ---- *)

\* One pass of `for _ in 0..=put_per_thread`.
PutStartOneMore(w) ==
    /\ pc[w] = "loop" /\ IsPutWorker(w)
    /\ iter[w] <= put_per_thread
    /\ iter' = [iter EXCEPT ![w] = @ + 1]
    /\ \E fs \in FileSizes : file_size' = [file_size EXCEPT ![w] = fs]
    /\ start_time' = [start_time EXCEPT ![w] = now]
    /\ pc' = [pc EXCEPT ![w] = "gen_body"]
    /\ UNCHANGED <<mainVars, body, getLocals, stats, vec_len, stats_vec, mutex,
                   now, history>>

\* One pass of `for _ in 0..put_per_thread`: file_size, key, start_time.
PutStart(w) ==
    /\ pc[w] = "loop" /\ IsPutWorker(w)
    /\ iter[w] < put_per_thread
    /\ iter' = [iter EXCEPT ![w] = @ + 1]
    /\ \E fs \in FileSizes : file_size' = [file_size EXCEPT ![w] = fs]
    /\ start_time' = [start_time EXCEPT ![w] = now]
    /\ pc' = [pc EXCEPT ![w] = "gen_body"]
    /\ UNCHANGED <<mainVars, body, getLocals, stats, vec_len, stats_vec, mutex,
                   now, history>>

\* let body: Vec<u8> = (0..file_size).map(..).collect(); the request is sent
PutGenBody(w) ==
    /\ pc[w] = "gen_body"
    /\ body' = [body EXCEPT ![w] = file_size[w]]
    /\ \E d \in Delays : now' = Elapse(d)
    /\ pc' = [pc EXCEPT ![w] = "put_await"]
    /\ UNCHANGED <<mainVars, iter, file_size, getLocals, start_time, stats,
                   vec_len, stats_vec, mutex, history>>

\* s3.put_object(put_req).await => Ok(_): end_time, Stats
PutOk(w) ==
    /\ pc[w] = "put_await"
    /\ \E d \in Delays :
         /\ now' = Elapse(d)
         /\ stats' = [stats EXCEPT ![w] =
                         Stats(start_time[w], Elapse(d), "Put", file_size[w])]
    /\ pc' = [pc EXCEPT ![w] = "lock"]
    /\ ok_put' = ok_put + 1
    /\ UNCHANGED <<mainVars, iter, putLocals, getLocals, start_time, vec_len,
                   stats_vec, mutex, ok_get, ok_read, pushed, backoffs, counts>>

\* A dispatch failure that still records the attempt.
PutHttpDispatchRecorded(w) ==
    /\ pc[w] = "put_await"
    /\ stats_vec' = Append(stats_vec, Stats(start_time[w], now, "Put", file_size[w]))
    /\ EndIteration(w)
    /\ UNCHANGED <<mainVars, iter, stats, vec_len, mutex, now, history>>

\* Err(RusotoError::HttpDispatch(_)) => println!("HttpDispatch")
PutHttpDispatch(w) ==
    /\ pc[w] = "put_await"
    /\ EndIteration(w)
    /\ UNCHANGED <<mainVars, iter, stats, vec_len, stats_vec, mutex, now, ok_put,
                   ok_get, ok_read, pushed, backoffs, counts>>

\* Err(e) => eprintln!("Error putting object")
PutError(w) ==
    /\ pc[w] = "put_await"
    /\ EndIteration(w)
    /\ UNCHANGED <<mainVars, iter, stats, vec_len, stats_vec, mutex, now, ok_put,
                   ok_get, ok_read, pushed, backoffs, counts>>

(* ---- the shared vector ---- *)

\* A lock that excludes nobody.
MutexNeverBlocks == TRUE

\* Mutex::lock succeeds only while nobody owns the mutex.
MutexAvailable == mutex = NoOwner

\* A task that panics with the guard in hand: the mutex stays with it.
LockThenPanic(w) ==
    /\ pc[w] = "lock"
    /\ MutexAvailable
    /\ mutex' = w
    /\ Panic(w)
    /\ UNCHANGED <<mainVars, iter, stats, vec_len, stats_vec, now, history>>

\* stats_vec.lock().unwrap()
Lock(w) ==
    /\ pc[w] = "lock"
    /\ MutexAvailable
    /\ mutex' = w
    /\ pc' = [pc EXCEPT ![w] = "push"]
    /\ UNCHANGED <<mainVars, iter, putLocals, getLocals, start_time, stats,
                   vec_len, stats_vec, now, history>>

\* Vec::push, first half: read the current length
PushReserve(w) ==
    /\ pc[w] = "push"
    /\ vec_len' = [vec_len EXCEPT ![w] = Len(stats_vec)]
    /\ pc' = [pc EXCEPT ![w] = "push_write"]
    /\ UNCHANGED <<mainVars, iter, putLocals, getLocals, start_time, stats,
                   stats_vec, mutex, now, history>>

\* A push that writes over the last element instead of behind it.
WriteOverLast(vec, len, e) ==
    [i \in 1..(IF len = 0 THEN 1 ELSE len) |-> IF i < len THEN vec[i] ELSE e]

\* The vector after writing element e at index len and setting the length to len + 1.
WriteAt(vec, len, e) ==
    [i \in 1..(len + 1) |-> IF i <= len /\ i <= Len(vec) THEN vec[i] ELSE e]

\* A push whose guard is kept beyond the statement.
PushWriteKeepsGuard(w) ==
    /\ pc[w] = "push_write"
    /\ stats_vec' = WriteAt(stats_vec, vec_len[w], stats[w])
    /\ stats' = [stats EXCEPT ![w] = NoStats]
    /\ vec_len' = [vec_len EXCEPT ![w] = 0]
    /\ pushed' = pushed (+) SetToBag({stats[w]})
    /\ appended' = [appended EXCEPT ![w] = @ + 1]
    /\ EndIteration(w)
    /\ UNCHANGED <<mainVars, iter, mutex, now, ok_put, ok_get, ok_read, backoffs,
                   gets>>

\* Vec::push, second half: write the element, set the length; the guard is dropped
PushWrite(w) ==
    /\ pc[w] = "push_write"
    /\ stats_vec' = WriteAt(stats_vec, vec_len[w], stats[w])
    /\ mutex' = IF mutex = w THEN NoOwner ELSE mutex
    /\ stats' = [stats EXCEPT ![w] = NoStats]
    /\ vec_len' = [vec_len EXCEPT ![w] = 0]
    /\ pushed' = pushed (+) SetToBag({stats[w]})
    /\ EndIteration(w)
    /\ appended' = [appended EXCEPT ![w] = @ + 1]
    /\ UNCHANGED <<mainVars, iter, now, ok_put, ok_get, ok_read, backoffs, gets>>

(* ---- get worker ---- *)

\* One pass of `for _ in 0..get_per_thread`: a fresh request and object list.
GetStart(w) ==
    /\ pc[w] = "loop" /\ IsGetWorker(w)
    /\ iter[w] < get_per_thread
    /\ iter' = [iter EXCEPT ![w] = @ + 1]
    /\ request' = [request EXCEPT ![w] = NoToken]
    /\ objects' = [objects EXCEPT ![w] = <<>>]
    /\ pages' = [pages EXCEPT ![w] = 0]
    /\ pc' = [pc EXCEPT ![w] = "list_await"]
    /\ UNCHANGED <<mainVars, putLocals, key, buf, start_time, stats, vec_len,
                   stats_vec, mutex, now, history>>

\* The contents a page of a listing may carry: Some(vec) of objects, whose key
\* is Some(name) or None.
PageContents == {<<>>} \cup {<<k>> : k \in Keys \cup {NoKey}}

\* s3.list_objects_v2(..).await is Err(HttpDispatch(_)): unwrap() panics
ListHttpDispatch(w) ==
    /\ pc[w] = "list_await"
    /\ Panic(w)
    /\ UNCHANGED <<mainVars, iter, stats, vec_len, stats_vec, mutex, now, ok_put,
                   ok_get, ok_read, pushed, backoffs, counts>>

\* s3.list_objects_v2(..).await is another Err(_): unwrap() panics
ListError(w) ==
    /\ pc[w] = "list_await"
    /\ Panic(w)
    /\ UNCHANGED <<mainVars, iter, stats, vec_len, stats_vec, mutex, now, ok_put,
                   ok_get, ok_read, pushed, backoffs, counts>>

\* Ok(result) with result.contents == None: contents.unwrap() panics
ListNoContents(w) ==
    /\ pc[w] = "list_await"
    /\ Panic(w)
    /\ UNCHANGED <<mainVars, iter, stats, vec_len, stats_vec, mutex, now, ok_put,
                   ok_get, ok_read, pushed, backoffs, counts>>

\* result.next_continuation_token of the n-th page of a listing
PageToken(n) == n

\* A page whose continuation token is not put into the next request.
ListPageDropsToken(w) ==
    /\ pc[w] = "list_await"
    /\ pages[w] + 1 < MaxPages
    /\ \E c \in PageContents : objects' = [objects EXCEPT ![w] = @ \o c]
    /\ pages' = [pages EXCEPT ![w] = @ + 1]
    /\ UNCHANGED <<mainVars, pc, iter, putLocals, request, key, buf, start_time,
                   stats, vec_len, stats_vec, mutex, now, history>>

\* Ok(result) with a next_continuation_token: extend objects, ask for the next page
ListPage(w) ==
    /\ pc[w] = "list_await"
    /\ pages[w] + 1 < MaxPages
    /\ \E c \in PageContents : objects' = [objects EXCEPT ![w] = @ \o c]
    /\ pages' = [pages EXCEPT ![w] = @ + 1]
    /\ request' = [request EXCEPT ![w] = PageToken(pages[w] + 1)]
    /\ UNCHANGED <<mainVars, pc, iter, putLocals, key, buf, start_time, stats,
                   vec_len, stats_vec, mutex, now, ok_put, ok_get, ok_read, pushed, backoffs, counts>>

\* Ok(result) without a next_continuation_token: extend objects, break
ListLastPage(w) ==
    /\ pc[w] = "list_await"
    /\ \E c \in PageContents : objects' = [objects EXCEPT ![w] = @ \o c]
    /\ pages' = [pages EXCEPT ![w] = @ + 1]
    /\ pc' = [pc EXCEPT ![w] = "listed"]
    /\ UNCHANGED <<mainVars, iter, putLocals, request, key, buf, start_time, stats,
                   vec_len, stats_vec, mutex, now, ok_put, ok_get, ok_read, pushed, backoffs, counts>>

\* An empty listing that falls through to the GET instead of backing off.
EmptyListingFallsThrough(w) ==
    /\ pc[w] = "listed"
    /\ Len(objects[w]) = 0
    /\ pc' = [pc EXCEPT ![w] = "get_await"]
    /\ UNCHANGED <<mainVars, iter, putLocals, getLocals, start_time, stats,
                   vec_len, stats_vec, mutex, now, history>>

\* if objects.len() == 0 { sleep(1 s).await; ..
EmptyListing(w) ==
    /\ pc[w] = "listed"
    /\ Len(objects[w]) = 0
    /\ pc' = [pc EXCEPT ![w] = "sleep"]
    /\ UNCHANGED <<mainVars, iter, putLocals, getLocals, start_time, stats,
                   vec_len, stats_vec, mutex, now, history>>

\* A sleep after which the pass is given back to the loop.
BackoffRetries(w) ==
    /\ pc[w] = "sleep"
    /\ now' = Elapse(BackoffTicks)
    /\ backoffs' = [backoffs EXCEPT ![w] = @ + 1]
    /\ iter' = [iter EXCEPT ![w] = @ - 1]
    /\ EndIteration(w)
    /\ UNCHANGED <<mainVars, stats, vec_len, stats_vec, mutex, ok_put,
                   ok_get, ok_read, pushed, counts>>

\* .. continue }: the sleep is over, the next pass of the for loop follows
Backoff(w) ==
    /\ pc[w] = "sleep"
    /\ now' = Elapse(BackoffTicks)
    /\ backoffs' = [backoffs EXCEPT ![w] = @ + 1]
    /\ EndIteration(w)
    /\ UNCHANGED <<mainVars, iter, stats, vec_len, stats_vec, mutex, ok_put,
                   ok_get, ok_read, pushed, counts>>

\* let key = objects[gen_range(0..objects.len())].key.clone().unwrap();
\* start_time; the GET request is sent
SelectKey(w) ==
    /\ pc[w] = "listed"
    /\ Len(objects[w]) > 0
    /\ \E i \in 1..Len(objects[w]) :
         IF objects[w][i] = NoKey
           THEN /\ Panic(w)
                /\ UNCHANGED <<mainVars, iter, stats, vec_len, stats_vec, mutex,
                               now, history>>
           ELSE /\ key' = [key EXCEPT ![w] = objects[w][i]]
                /\ start_time' = [start_time EXCEPT ![w] = now]
                /\ pc' = [pc EXCEPT ![w] = "get_await"]
                /\ gets' = [gets EXCEPT ![w] = @ + 1]
                /\ UNCHANGED <<mainVars, iter, putLocals, request, pages, objects,
                               buf, stats, vec_len, stats_vec, mutex, now, ok_put,
                               ok_get, ok_read, pushed, backoffs, appended>>

\* s3.get_object(get_req).await => Ok(resp), resp.body is Some(body)
GetOkBody(w) ==
    /\ pc[w] = "get_await"
    /\ pc' = [pc EXCEPT ![w] = "read_await"]
    /\ ok_get' = ok_get + 1
    /\ UNCHANGED <<mainVars, iter, putLocals, getLocals, start_time, stats,
                   vec_len, stats_vec, mutex, now, ok_put, ok_read, pushed, backoffs, counts>>

\* Ok(resp), resp.body is None => eprintln!("No body in response")
GetOkNoBody(w) ==
    /\ pc[w] = "get_await"
    /\ EndIteration(w)
    /\ ok_get' = ok_get + 1
    /\ UNCHANGED <<mainVars, iter, stats, vec_len, stats_vec, mutex, now, ok_put,
                   ok_read, pushed, backoffs, counts>>

\* Err(RusotoError::HttpDispatch(_)) => {}
GetHttpDispatch(w) ==
    /\ pc[w] = "get_await"
    /\ EndIteration(w)
    /\ UNCHANGED <<mainVars, iter, stats, vec_len, stats_vec, mutex, now, history>>

\* Err(e) => eprintln!("Error getting object")
GetError(w) ==
    /\ pc[w] = "get_await"
    /\ EndIteration(w)
    /\ UNCHANGED <<mainVars, iter, stats, vec_len, stats_vec, mutex, now, ok_put,
                   ok_get, ok_read, pushed, backoffs, counts>>

\* body.read_to_end(&mut buf).await is Ok: end_time, Stats with buf.len()
ReadOk(w) ==
    /\ pc[w] = "read_await"
    /\ \E d \in Delays, n \in BodySizes :
         /\ now' = Elapse(d)
         /\ buf' = [buf EXCEPT ![w] = n]
         /\ stats' = [stats EXCEPT ![w] = Stats(start_time[w], Elapse(d), "Get", n)]
    /\ pc' = [pc EXCEPT ![w] = "lock"]
    /\ ok_read' = ok_read + 1
    /\ UNCHANGED <<mainVars, iter, putLocals, request, pages, objects, key,
                   start_time, vec_len, stats_vec, mutex, ok_put, ok_get, pushed,
                   backoffs, counts>>

\* body.read_to_end(&mut buf).await is Err: unwrap() panics
ReadError(w) ==
    /\ pc[w] = "read_await"
    /\ Panic(w)
    /\ UNCHANGED <<mainVars, iter, stats, vec_len, stats_vec, mutex, now, history>>

(* ---- main: join and aggregation ---- *)

\* A join that waits for the put tasks only.
PutTasksFinished == \A w \in 1..put_thread_num : pc[w] \in {"done", "panicked"}

\* Every join handle in tasks_future has resolved (Ok or Err(JoinError)).
AllTasksFinished == \A w \in 1..tasks_future : pc[w] \in {"done", "panicked"}

\* block_on(join_all(tasks_future)) returns; println!("Done!")
JoinAll ==
    /\ main_pc = "join"
    /\ AllTasksFinished
    /\ main_pc' = "lock"
    /\ UNCHANGED <<argv, config, tasks_future, aggVars, workerVars, stats_vec,
                   mutex, now, history>>

\* let stat_vec = stats_vec.lock().unwrap();
MainLock ==
    /\ main_pc = "lock"
    /\ MutexAvailable
    /\ mutex' = MainThread
    /\ main_pc' = "aggregate"
    /\ UNCHANGED <<argv, config, tasks_future, aggVars, workerVars, stats_vec,
                   now, history>>

\* i.end_time.duration_since(i.start_time).as_millis()
DurationMillis(i) == (i.end_time - i.start_time) \div TicksPerMs

\* The body of `for i in stat_vec.iter()`: one match on request_type.
Accumulate(t, i) ==
    IF i.request_type = "Put"
      THEN [t EXCEPT !.put_count = @ + 1,
                     !.put_time = @ + DurationMillis(i),
                     !.put_file_size = @ + i.file_size]
      ELSE [t EXCEPT !.get_count = @ + 1,
                     !.get_time = @ + DurationMillis(i),
                     !.get_file_size = @ + i.file_size]

\* The six accumulators after the loop over the first n elements of vec.
RECURSIVE AggregateUpTo(_, _)
AggregateUpTo(vec, n) ==
    IF n = 0 THEN ZeroTotals ELSE Accumulate(AggregateUpTo(vec, n - 1), vec[n])

\* for i in stat_vec.iter() { .. }
Aggregate ==
    /\ main_pc = "aggregate"
    /\ totals' = AggregateUpTo(stats_vec, Len(stats_vec))
    /\ agg_runs' = agg_runs + 1
    /\ main_pc' = "avg_put"
    /\ UNCHANGED <<argv, config, tasks_future, put_avg_time, get_avg_time, report,
                   workerVars, stats_vec, mutex, now, history>>

\* let put_avg_time = put_time / put_count as u128;  (panics on a zero divisor)
AvgPut ==
    /\ main_pc = "avg_put"
    /\ IF totals.put_count = 0
         THEN /\ main_pc' = "panic_div_zero"
              /\ UNCHANGED put_avg_time
         ELSE /\ main_pc' = "avg_get"
              /\ put_avg_time' = totals.put_time \div totals.put_count
    /\ UNCHANGED <<argv, config, tasks_future, totals, get_avg_time, report,
                   agg_runs, workerVars, stats_vec, mutex, now, history>>

\* let get_avg_time = get_time / get_count as u128;  (panics on a zero divisor)
AvgGet ==
    /\ main_pc = "avg_get"
    /\ IF totals.get_count = 0
         THEN /\ main_pc' = "panic_div_zero"
              /\ UNCHANGED get_avg_time
         ELSE /\ main_pc' = "report"
              /\ get_avg_time' = totals.get_time \div totals.get_count
    /\ UNCHANGED <<argv, config, tasks_future, totals, put_avg_time, report,
                   agg_runs, workerVars, stats_vec, mutex, now, history>>

\* One line of the report: count, total_time, avg_time, total_size in MB.
StatsLine(count, time, avg, size) ==
    [count |-> count, total_time |-> time, avg_time |-> avg,
     total_size_mb |-> (size \div BytesPerKiB) \div BytesPerKiB]

\* println!("PUT stats: .."); println!("GET stats: .."); main returns
Report ==
    /\ main_pc = "report"
    /\ report' = [printed |-> TRUE,
                  put |-> StatsLine(totals.put_count, totals.put_time,
                                    put_avg_time, totals.put_file_size),
                  get |-> StatsLine(totals.get_count, totals.get_time,
                                    get_avg_time, totals.get_file_size)]
    /\ mutex' = NoOwner
    /\ main_pc' = "done"
    /\ UNCHANGED <<argv, config, tasks_future, totals, put_avg_time, get_avg_time,
                   agg_runs, workerVars, stats_vec, now, history>>

(* ---- specification ---- *)

Next ==
    \/ CheckArgs
    \/ ParseArgs
    \/ SpawnPut
    \/ SpawnPutDone
    \/ SpawnGet
    \/ SpawnGetDone
    \/ JoinAll
    \/ MainLock
    \/ Aggregate
    \/ AvgPut
    \/ AvgGet
    \/ Report
    \/ \E w \in Workers : WorkerDone(w)
    \/ \E w \in Workers : PutStart(w)
    \/ \E w \in Workers : PutGenBody(w)
    \/ \E w \in Workers : PutOk(w)
    \/ \E w \in Workers : PutHttpDispatch(w)
    \/ \E w \in Workers : PutError(w)
    \/ \E w \in Workers : Lock(w)
    \/ \E w \in Workers : PushReserve(w)
    \/ \E w \in Workers : PushWrite(w)
    \/ \E w \in Workers : GetStart(w)
    \/ \E w \in Workers : ListHttpDispatch(w)
    \/ \E w \in Workers : ListError(w)
    \/ \E w \in Workers : ListNoContents(w)
    \/ \E w \in Workers : ListPage(w)
    \/ \E w \in Workers : ListLastPage(w)
    \/ \E w \in Workers : EmptyListing(w)
    \/ \E w \in Workers : Backoff(w)
    \/ \E w \in Workers : SelectKey(w)
    \/ \E w \in Workers : GetOkBody(w)
    \/ \E w \in Workers : GetOkNoBody(w)
    \/ \E w \in Workers : GetHttpDispatch(w)
    \/ \E w \in Workers : GetError(w)
    \/ \E w \in Workers : ReadOk(w)
    \/ \E w \in Workers : ReadError(w)

Spec == Init /\ [][Next]_vars

\* The run against a storage whose every call fails with HttpDispatch: the
\* environment never takes an Ok or another-error step.
NextDispatch ==
    \/ CheckArgs
    \/ ParseArgs
    \/ SpawnPut
    \/ SpawnPutDone
    \/ SpawnGet
    \/ SpawnGetDone
    \/ JoinAll
    \/ MainLock
    \/ Aggregate
    \/ AvgPut
    \/ \E w \in Workers : WorkerDone(w)
    \/ \E w \in Workers : PutStart(w)
    \/ \E w \in Workers : PutGenBody(w)
    \/ \E w \in Workers : PutHttpDispatch(w)
    \/ \E w \in Workers : GetStart(w)
    \/ \E w \in Workers : ListHttpDispatch(w)

SpecDispatch == Init /\ [][NextDispatch]_vars

TypeOK ==
    /\ main_pc \in {"args", "parse", "exit_usage", "panic_parse", "spawn_put",
                    "spawn_get", "join", "lock", "aggregate", "avg_put", "avg_get",
                    "report", "done", "panic_div_zero"}
    /\ \A w \in Workers :
         pc[w] \in {"unspawned", "loop", "gen_body", "put_await", "lock", "push",
                    "push_write", "list_await", "listed", "sleep", "get_await",
                    "read_await", "done", "panicked"}
    /\ now \in 0..MaxTime
    /\ mutex \in {NoOwner, MainThread} \cup Workers

(* ---- state functions used by the properties ---- *)

\* main has returned from block_on(join_all(..))
Joined == main_pc \in {"lock", "aggregate", "avg_put", "avg_get", "report",
                       "done", "panic_div_zero"}

\* main has ended, by returning or by a panic in the aggregation
MainEnded == main_pc \in {"done", "panic_div_zero"}

Spawned == 1..tasks_future

RECURSIVE SumOver(_, _)
SumOver(S, f) ==
    IF S = {} THEN 0
    ELSE LET x == CHOOSE y \in S : TRUE IN f[x] + SumOver(S \ {x}, f)

\* The indices of the records of one kind, and the sums the summary is about.
Partition(kind) == {i \in DOMAIN stats_vec : stats_vec[i].request_type = kind}
Count(kind) == Cardinality(Partition(kind))
TotalMillis(kind) ==
    SumOver(Partition(kind),
            [i \in DOMAIN stats_vec |->
                (stats_vec[i].end_time - stats_vec[i].start_time) \div TicksPerMs])
TotalBytes(kind) ==
    SumOver(Partition(kind), [i \in DOMAIN stats_vec |-> stats_vec[i].file_size])

\* The bag of the elements of a sequence.
SeqToBag(seq) ==
    [r \in {seq[i] : i \in DOMAIN seq} |-> Cardinality({i \in DOMAIN seq : seq[i] = r})]

(* ---- C1 ---- *)

\* C1: after the join the collector holds exactly the records that the workers
\* appended, each as often as it was appended: none lost, none duplicated.
C1_NoAppendLost ==
    Joined => /\ SeqToBag(stats_vec) = pushed
              /\ Len(stats_vec) = BagCardinality(pushed)

\* Two workers have appended three records between them and main has reported.
C1_Witness ==
    /\ main_pc = "done"
    /\ tasks_future = 2
    /\ \A w \in Spawned : pc[w] = "done"
    /\ Len(stats_vec) = 3
    /\ BagCardinality(pushed) = 3

(* ---- C2 ---- *)

\* C2: for every final record set the aggregation completes without failing and
\* the report carries both partitions, an empty one with count 0 and average 0.
C2_AggregationNeverFails ==
    /\ main_pc # "panic_div_zero"
    /\ main_pc = "done" =>
          /\ report.printed
          /\ report.put.count = 0 => report.put.avg_time = 0
          /\ report.get.count = 0 => report.get.avg_time = 0

(* ---- C3 ---- *)

\* Every spawned worker has finished: its loop is exhausted or it has panicked.
AllWorkersFinished == \A w \in Spawned : pc[w] \in {"done", "panicked"}

\* C3: main reads the collector only after every spawned worker has finished,
\* the aggregation pass runs once, and from the join on nothing is appended.
C3_JoinBeforeAggregate ==
    /\ [](Joined => AllWorkersFinished)
    /\ [](agg_runs <= 1)
    /\ [](main_pc \in {"avg_put", "avg_get", "report", "done", "panic_div_zero"}
             => agg_runs = 1)
    /\ [][Joined => stats_vec' = stats_vec /\ pushed' = pushed]_vars

\* Main has aggregated and reported the records of two finished workers.
C3_Witness ==
    /\ main_pc = "done"
    /\ agg_runs = 1
    /\ tasks_future = 2
    /\ AllWorkersFinished
    /\ Len(stats_vec) >= 2

(* ---- C4 ---- *)

\* C4: no storage error aborts a worker: no worker task ever ends in a panic.
C4_NoWorkerAborts == \A w \in Workers : pc[w] # "panicked"

(* ---- C5 ---- *)

\* C5: against a storage whose every call fails with HttpDispatch a run whose
\* put workers have made their calls ends with a report of put.count = 0 and
\* get.count = 0, never with a crash.
C5_DispatchOnlyRunReports ==
    (MainEnded /\ put_thread_num >= 1 /\ put_per_thread >= 1)
    => /\ main_pc = "done"
       /\ report.put.count = 0
       /\ report.get.count = 0

(* ---- C6 ---- *)

\* C6: with P >= 1 put workers of N >= 1 iterations, no get worker and every PUT
\* accepted, the run ends with a report of put.count = P * N and get.count = 0.
C6_PutOnlyRunReports ==
    (/\ MainEnded
     /\ put_thread_num >= 1 /\ put_per_thread >= 1 /\ get_thread_num = 0
     /\ ok_put = put_thread_num * put_per_thread)
    => /\ main_pc = "done"
       /\ report.put.count = put_thread_num * put_per_thread
       /\ report.get.count = 0

(* ---- C7 ---- *)

\* The keys held in a worker's object list.
ListedKeys(w) == {objects[w][i] : i \in DOMAIN objects[w]}

C8_PartitionSums ==
    (MainEnded /\ Count("Put") > 0)
    => /\ main_pc = "done"
       /\ report.put.count = Count("Put")
       /\ report.put.total_time = TotalMillis("Put")
       /\ report.put.avg_time = TotalMillis("Put") \div Count("Put")
       /\ totals.put_file_size = TotalBytes("Put")
       /\ report.get.count = Count("Get")
       /\ report.get.total_time = TotalMillis("Get")
       /\ totals.get_file_size = TotalBytes("Get")
       /\ Count("Put") + Count("Get") = Len(stats_vec)

(* ---- C9 ---- *)

\* C9: when the join returns, every worker has ended its loop normally, after
\* exactly its configured number of iterations.
C9_WorkersRunToDone ==
    Joined => \A w \in Spawned : pc[w] = "done" /\ iter[w] = PerThread(w)

(* ---- C10 ---- *)

\* C10 as stated, for runs in which no worker panicked: at the join the number
\* of Put records is the number of accepted PUTs and the number of Get records
\* is the number of GETs the storage answered with Ok.
C10_RecordPerOkResponse ==
    (Joined /\ \A w \in Spawned : pc[w] = "done")
    => Count("Put") = ok_put /\ Count("Get") = ok_get

\* C10 amended: at the join the number of Put records is the number of accepted
\* PUTs and the number of Get records is the number of GET responses whose body
\* was read to the end; a record in the collector is never changed or removed.
C10_RecordPerCompletedOperation ==
    /\ [](Joined => Count("Put") = ok_put /\ Count("Get") = ok_read)
    /\ [](ok_read <= ok_get)
    /\ [][/\ Len(stats_vec') >= Len(stats_vec)
          /\ \A i \in DOMAIN stats_vec : stats_vec'[i] = stats_vec[i]]_vars

\* After the join the collector holds a Put and a Get record, and one GET was
\* answered with Ok without leading to a record.
C10_Witness ==
    /\ Joined
    /\ Count("Put") >= 1 /\ Count("Get") >= 1
    /\ ok_get > ok_read

(* ---- C11 ---- *)

\* A step in which worker w leaves a PUT or GET call without a Stats value to
\* push (a Skip or a Failure), or panics.
FailedAttempt(w) ==
    \/ pc[w] \in {"put_await", "get_await"} /\ pc'[w] = "loop"
    \/ pc[w] # "panicked" /\ pc'[w] = "panicked"

\* C11: an attempt that ends in a dispatch failure or in another error leaves
\* the collector as it is and leaves the worker nothing to append.
C11_FailureLeavesCollector ==
    [][\A w \in Workers :
          FailedAttempt(w) => /\ stats_vec' = stats_vec
                              /\ pushed' = pushed
                              /\ appended' = appended
                              /\ stats'[w] = NoStats]_vars

\* A single put worker has made two attempts: one was recorded, the other
\* failed, and the collector holds the one record.
C11_Witness ==
    /\ put_thread_num = 1 /\ get_thread_num = 0
    /\ pc[1] = "done"
    /\ iter[1] = 2
    /\ ok_put = 1
    /\ Len(stats_vec) = 1

(* ---- C12 ---- *)

\* Positions in which a worker is suspended in an await.
Suspended == {"put_await", "list_await", "sleep", "get_await", "read_await"}

\* C12: a suspended worker does not own the mutex; a worker owns it only
\* inside the single push.
C12_NoLockWhileSuspended ==
    \A w \in Workers :
       /\ pc[w] \in Suspended => mutex # w
       /\ mutex = w => pc[w] \in {"push", "push_write"}

\* One worker is inside its push, owning the mutex, while another is suspended
\* in a storage call.
C12_Witness ==
    \E w, v \in Workers :
       /\ mutex = w
       /\ pc[w] = "push_write"
       /\ pc[v] \in Suspended
       /\ iter[w] = 2

(* ---- C13 ---- *)

\* The arguments are missing or malformed.
BadArguments ==
    \/ argv.num_args # RequiredArgs
    \/ BadArg \in {argv.a4, argv.a5, argv.a6, argv.a7}

\* C13: with missing or malformed arguments main ends at once with the usage
\* message and exit code 1, and no worker was spawned and no call was made.
C13_BadArgsUsageExit ==
    (BadArguments /\ main_pc \notin {"args", "parse"})
    => /\ main_pc = "exit_usage"
       /\ tasks_future = 0
       /\ \A w \in Workers : pc[w] = "unspawned"

(* ---- C14 ---- *)

\* C14: when the payload is complete and the PUT is invoked, start_time is the
\* time of that moment, so the measured duration covers the PUT call only.
C14_StartTimeAfterPayload ==
    [][\A w \in Workers :
          (pc[w] = "gen_body" /\ pc'[w] = "put_await") => start_time'[w] = now']_vars

(* ---- C15 ---- *)

\* A well-formed record: the end is not before the start, the size is not
\* negative, and a Put size lies in the half-open range of generated sizes.
WellFormed(r) ==
    /\ r.end_time >= r.start_time
    /\ r.file_size >= 0
    /\ r.request_type \in {"Put", "Get"}
    /\ r.request_type = "Put" => MinFileSize <= r.file_size /\ r.file_size < FileSizeLimit

\* C15: every record of the collector is well-formed; the size of a Put record
\* is the length of the payload sent, the size of a Get record is the number
\* of bytes read, and the record is appended as it was built.
C15_RecordsWellFormed ==
    /\ [](\A i \in DOMAIN stats_vec : WellFormed(stats_vec[i]))
    /\ [][\A w \in Workers :
            /\ (pc[w] = "put_await" /\ pc'[w] = "lock")
                  => /\ stats'[w].request_type = "Put"
                     /\ stats'[w].file_size = body[w]
                     /\ stats'[w].start_time = start_time[w]
                     /\ stats'[w].end_time = now'
            /\ (pc[w] = "read_await" /\ pc'[w] = "lock")
                  => /\ stats'[w].request_type = "Get"
                     /\ stats'[w].file_size = buf'[w]
                     /\ stats'[w].start_time = start_time[w]
                     /\ stats'[w].end_time = now'
            /\ (pc[w] = "push_write" /\ pc'[w] = "loop")
                  => stats_vec'[Len(stats_vec')] = stats[w]]_vars

\* The collector holds a Put record of the largest size that took time, and a
\* Get record with bytes read.
C15_Witness ==
    \E i, j \in DOMAIN stats_vec :
       /\ stats_vec[i].request_type = "Put"
       /\ stats_vec[i].file_size = FileSizeLimit - 1
       /\ stats_vec[i].end_time > stats_vec[i].start_time
       /\ stats_vec[j].request_type = "Get"
       /\ stats_vec[j].file_size = MinFileSize

(* ---- C16 ---- *)

\* seq is a prefix of its successor value.
Extends(longer, shorter) ==
    /\ Len(longer) >= Len(shorter)
    /\ SubSeq(longer, 1, Len(shorter)) = shorter

\* C16: each pass starts a fresh listing; every request after the first carries
\* the continuation token of the page before it; pages are added to the object
\* list until a page without token ends the listing; the key of the GET is a
\* key of that list.
C16_PaginationAndKey ==
    /\ [](\A w \in Workers :
            /\ pc[w] = "list_await"
                  => request[w] = IF pages[w] = 0 THEN NoToken ELSE PageToken(pages[w])
            /\ pc[w] = "listed" => pages[w] >= 1
            /\ pc[w] \in {"get_await", "read_await"}
                  => key[w] \in ListedKeys(w) \ {NoKey})
    /\ [][\A w \in Workers :
            /\ (pc[w] = "loop" /\ pc'[w] = "list_await")
                  => objects'[w] = <<>> /\ request'[w] = NoToken /\ pages'[w] = 0
            /\ (pc[w] = "list_await" /\ pc'[w] \in {"list_await", "listed"})
                  => /\ Extends(objects'[w], objects[w])
                     /\ pages'[w] \in {pages[w], pages[w] + 1}
            /\ (pc[w] = "list_await" /\ pc'[w] = "listed")
                  => pages'[w] = pages[w] + 1 /\ request'[w] = request[w]
            /\ (pc[w] \in {"listed", "get_await"} /\ pc'[w] \in {"get_await", "read_await"})
                  => objects'[w] = objects[w]]_vars

\* A GET is in flight for a key of a listing that took two pages.
C16_Witness ==
    \E w \in Workers :
       /\ pc[w] = "get_await"
       /\ pages[w] = 2
       /\ request[w] = PageToken(1)
       /\ Len(objects[w]) = 2
       /\ key[w] \in Keys

(* ---- C17 ---- *)

\* C17: the collector never holds more Put records than put_thread_num *
\* put_per_thread nor more Get records than get_thread_num * get_per_thread,
\* and no worker appends more records than its loop has iterations.
C17_RecordCountsBounded ==
    /\ Count("Put") <= put_thread_num * put_per_thread
    /\ Count("Get") <= get_thread_num * get_per_thread
    /\ \A w \in Workers :
          /\ appended[w] <= iter[w]
          /\ w \in Spawned => iter[w] <= PerThread(w)
          /\ w \notin Spawned => appended[w] = 0

\* Both bounds are met: every iteration of a put and of a get worker left a
\* record.
C17_Witness ==
    /\ put_thread_num >= 1 /\ get_thread_num >= 1
    /\ Count("Put") = put_thread_num * put_per_thread
    /\ Count("Get") = get_thread_num * get_per_thread
    /\ Len(stats_vec) = 3

(* ---- C18 ---- *)

\* C18: every listing round takes one pass of the get worker's for loop, an
\* empty listing included: backoffs and GETs together never exceed the passes,
\* the passes never exceed get_per_thread, the sleep leads to the loop head and
\* not back to the listing, and a worker whose every pass backed off ends
\* without a GET.
C18_EmptyListingSpendsBudget ==
    /\ [](\A w \in Workers : IsGetWorker(w) /\ w \in Spawned =>
            /\ iter[w] <= get_per_thread
            /\ backoffs[w] + gets[w] <= iter[w]
            /\ backoffs[w] = get_per_thread
                  => /\ gets[w] = 0
                     /\ appended[w] = 0
                     /\ pc[w] \in {"loop", "done"})
    /\ [][\A w \in Workers :
            /\ (IsGetWorker(w) /\ pc[w] # "list_await" /\ pc'[w] = "list_await")
                  => /\ pc[w] = "loop"
                     /\ iter'[w] = iter[w] + 1
                     /\ iter'[w] <= get_per_thread
            /\ (pc[w] = "sleep" /\ pc'[w] # "sleep")
                  => /\ pc'[w] = "loop"
                     /\ iter'[w] = iter[w]
                     /\ backoffs'[w] = backoffs[w] + 1]_vars

\* A get worker of two passes ended after two backoffs without a GET.
C18_Witness ==
    \E w \in Workers :
       /\ IsGetWorker(w)
       /\ get_per_thread = 2
       /\ pc[w] = "done"
       /\ backoffs[w] = 2
       /\ gets[w] = 0

(* ---- C19 ---- *)

\* C19: the join returns as soon as every worker is done or has panicked; no
\* worker panics with the guard in hand; from the join on no worker owns the
\* mutex, so main's lock() is granted at once.
C19_FinalLockGranted ==
    /\ []((main_pc = "join" /\ AllWorkersFinished) => ENABLED JoinAll)
    /\ [](main_pc = "lock" => ENABLED MainLock)
    /\ [](Joined => mutex \notin Workers)
    /\ [](\A w \in Workers : pc[w] \in {"done", "panicked", "unspawned"} => mutex # w)
    /\ [][\A w \in Workers :
            (pc[w] # "panicked" /\ pc'[w] = "panicked") => mutex # w /\ mutex' # w]_vars

\* Main holds the guard over a collector with a record, after a worker panicked.
C19_Witness ==
    /\ main_pc = "aggregate"
    /\ mutex = MainThread
    /\ \E w \in Spawned : pc[w] = "panicked"
    /\ Len(stats_vec) >= 1

====
